---------------------------- MODULE Spec2Model ----------------------------
(***************************************************************************)
(* A model of pybez (src/pybez/api.py): the Point and Bezier classes and   *)
(* the bakers quadratic() and cubic().                                     *)
(*                                                                         *)
(* Numbers.  Point coordinates are integers (the editor feeds pixel        *)
(* coordinates).  The bakers interpolate with r = j/resolution, so their   *)
(* samples are rationals: a baker number is a reduced fraction <<n, d>>    *)
(* with d > 0, and the arithmetic of lerp2 is carried out exactly.  The    *)
(* binary rounding of Python floats is not modelled.                       *)
(***************************************************************************)
EXTENDS Integers, Sequences, FiniteSets, TLC

VARIABLES
    points,     \* Bezier._points: sequence of [pos, begin, end, mode]
    is_cubic,   \* Bezier._is_cubic
    call,       \* the last call made: its name and arguments
    ret,        \* what the last call returned or raised
    edits       \* the number of calls made so far that changed a Point

vars == <<points, is_cubic, call, ret, edits>>

---------------------------------------------------------------------------
(* Bounds of the model. *)

MaxN == 7          \* longest control polygon handed to a baker
MaxRes == 4        \* largest resolution handed to a baker
MaxMoves == 2      \* move_point calls made on a Point on its own
MaxPoints == 3     \* Points of a curve
MaxSymMoves == 5   \* move_point calls made on a Point kept in Symmetrical mode
MaxEdits == 2      \* move_point calls and mode assignments on the Points of a curve

---------------------------------------------------------------------------
(* Exact rational arithmetic for the float arithmetic of the bakers. *)

Abs(x) == IF x < 0 THEN -x ELSE x

RECURSIVE GCD(_, _)
GCD(a, b) == IF b = 0 THEN a ELSE GCD(b, a % b)

Rat(n, d) ==
    LET g == GCD(Abs(n), Abs(d))
        s == IF d < 0 THEN -1 ELSE 1
    IN  <<(s * n) \div g, (s * d) \div g>>

FromInt(n) == <<n, 1>>
RAdd(a, b) == Rat(a[1] * b[2] + b[1] * a[2], a[2] * b[2])
RSub(a, b) == Rat(a[1] * b[2] - b[1] * a[2], a[2] * b[2])
RMul(a, b) == Rat(a[1] * b[1], a[2] * b[2])

(* A Vec2 of integers as the baker sees it. *)
RVec(p) == <<FromInt(p[1]), FromInt(p[2])>>

---------------------------------------------------------------------------
(* Results of a call. *)

None == [kind |-> "None"]
Value(v) == [kind |-> "value", value |-> v]
ValueError(msg) == [kind |-> "ValueError", msg |-> msg]

---------------------------------------------------------------------------
(* Enumerations. *)

BM_QUADRATIC == "QUADRATIC"
BM_CUBIC == "CUBIC"

PM_CUSP == "CUSP"
PM_SMOOTH == "SMOOTH"
PM_SYMMETRICAL == "SYMMETRICAL"
PointMode == {PM_CUSP, PM_SMOOTH, PM_SYMMETRICAL}

PT_POSITION == "POSITION"
PT_CTRL_BEGIN == "CTRL_BEGIN"
PT_CTRL_END == "CTRL_END"
PointType == {PT_POSITION, PT_CTRL_BEGIN, PT_CTRL_END}

---------------------------------------------------------------------------
(* Vector helpers on integer Vec2.  length() is a square root and normal() *)
(* a quotient: the model evaluates them where both are integers (see       *)
(* NormalExact), and there they are what the real arithmetic gives.        *)

opposite(p) == <<-p[1], -p[2]>>

SqLen(p) == p[1] * p[1] + p[2] * p[2]

IsSquare(n) == \E r \in 0..n : r * r = n

Sqrt(n) == CHOOSE r \in 0..n : r * r = n

length(p) == Sqrt(SqLen(p))

normal(p, scale) ==
    LET point_length == length(p)
    IN  IF point_length # 0
        THEN <<(p[1] * scale) \div point_length, (p[2] * scale) \div point_length>>
        ELSE <<0, 0>>

\* normal(p, length(q)) is a vector of integers.
NormalExact(p, q) ==
    IF p = <<0, 0>> THEN TRUE
    ELSE IF ~(IsSquare(SqLen(p)) /\ IsSquare(SqLen(q))) THEN FALSE
    ELSE /\ (p[1] * length(q)) % length(p) = 0
         /\ (p[2] * length(q)) % length(p) = 0

---------------------------------------------------------------------------
(* class Point *)

\* Point.__init__(x, y, dist)
Point(x, y, dist) ==
    [pos |-> <<x, y>>, begin |-> <<x + dist, y>>, end |-> <<x - dist, y>>,
     mode |-> PM_SYMMETRICAL]

\* The test of one part in Point.find_point: the offset, or no hit.
Within(p, location, margin) ==
    LET ox == location[1] - p[1]
        oy == location[2] - p[2]
    IN  ~(Abs(ox) > margin \/ Abs(oy) > margin)

HitOffset(p, location) == <<location[1] - p[1], location[2] - p[2]>>

Hit(pty, ofs) == [kind |-> "value", type |-> pty, offset |-> ofs]

\* Point.find_point(location, margin): pos, begin, end in this order.
Point_find_point(self, location, margin) ==
    IF Within(self.pos, location, margin)
    THEN Hit(PT_POSITION, HitOffset(self.pos, location))
    ELSE IF Within(self.begin, location, margin)
    THEN Hit(PT_CTRL_BEGIN, HitOffset(self.begin, location))
    ELSE IF Within(self.end, location, margin)
    THEN Hit(PT_CTRL_END, HitOffset(self.end, location))
    ELSE None

\* The displacement of v from the anchor p.
Disp(v, p) == <<v[1] - p[1], v[2] - p[2]>>

\* MovePosition that leaves the end handle where it was.
MovePosition_end_stays(self, target) ==
    LET db == Disp(self.begin, self.pos)
    IN  [self EXCEPT !.pos = target,
                     !.begin = <<target[1] + db[1], target[2] + db[2]>>]

\* The branch point_type is PT_POSITION of move_point; target is
\* (ox + x, oy + y).
MovePosition(self, target) ==
    LET db == Disp(self.begin, self.pos)
        de == Disp(self.end, self.pos)
    IN  [self EXCEPT !.pos = target,
                     !.begin = <<target[1] + db[1], target[2] + db[2]>>,
                     !.end = <<target[1] + de[1], target[2] + de[2]>>]

\* MoveCtrlBegin whose Smooth branch scales by the length of the new begin
\* displacement instead of elen.
MoveCtrlBegin_new_length(self, target) ==
    LET px == self.pos[1]
        py == self.pos[2]
        db == Disp(target, self.pos)
        moved == [self EXCEPT !.begin = target]
    IN  IF self.mode = PM_SMOOTH
        THEN LET e == normal(opposite(db), length(db))
             IN  [moved EXCEPT !.end = <<px + e[1], py + e[2]>>]
        ELSE IF self.mode = PM_SYMMETRICAL
        THEN LET e == opposite(db)
             IN  [moved EXCEPT !.end = <<px + e[1], py + e[2]>>]
        ELSE moved

\* MoveCtrlBegin whose second branch is an else: every mode but Smooth mirrors.
MoveCtrlBegin_else_mirrors(self, target) ==
    LET px == self.pos[1]
        py == self.pos[2]
        elen == length(Disp(self.end, self.pos))
        db == Disp(target, self.pos)
        moved == [self EXCEPT !.begin = target]
    IN  IF self.mode = PM_SMOOTH
        THEN LET e == normal(opposite(db), elen)
             IN  [moved EXCEPT !.end = <<px + e[1], py + e[2]>>]
        ELSE LET e == opposite(db)
             IN  [moved EXCEPT !.end = <<px + e[1], py + e[2]>>]

\* The branch point_type is PT_CTRL_BEGIN of move_point.
MoveCtrlBegin(self, target) ==
    LET px == self.pos[1]
        py == self.pos[2]
        elen == length(Disp(self.end, self.pos))
        db == Disp(target, self.pos)
        moved == [self EXCEPT !.begin = target]
    IN  IF self.mode = PM_SMOOTH
        THEN LET e == normal(opposite(db), elen)
             IN  [moved EXCEPT !.end = <<px + e[1], py + e[2]>>]
        ELSE IF self.mode = PM_SYMMETRICAL
        THEN LET e == opposite(db)
             IN  [moved EXCEPT !.end = <<px + e[1], py + e[2]>>]
        ELSE moved

\* MoveCtrlEnd whose Symmetrical branch mirrors the begin displacement it read
\* before the move instead of the new end displacement.
MoveCtrlEnd_old_displacement(self, target) ==
    LET px == self.pos[1]
        py == self.pos[2]
        blen == length(Disp(self.begin, self.pos))
        de == Disp(target, self.pos)
        moved == [self EXCEPT !.end = target]
    IN  IF self.mode = PM_SMOOTH
        THEN LET b == normal(opposite(de), blen)
             IN  [moved EXCEPT !.begin = <<px + b[1], py + b[2]>>]
        ELSE IF self.mode = PM_SYMMETRICAL
        THEN LET b == opposite(Disp(self.begin, self.pos))
             IN  [moved EXCEPT !.begin = <<px + b[1], py + b[2]>>]
        ELSE moved

\* MoveCtrlEnd whose Symmetrical branch does not negate the end displacement.
MoveCtrlEnd_not_negated(self, target) ==
    LET px == self.pos[1]
        py == self.pos[2]
        blen == length(Disp(self.begin, self.pos))
        de == Disp(target, self.pos)
        moved == [self EXCEPT !.end = target]
    IN  IF self.mode = PM_SMOOTH
        THEN LET b == normal(opposite(de), blen)
             IN  [moved EXCEPT !.begin = <<px + b[1], py + b[2]>>]
        ELSE IF self.mode = PM_SYMMETRICAL
        THEN [moved EXCEPT !.begin = <<px + de[1], py + de[2]>>]
        ELSE moved

\* The branch point_type is PT_CTRL_END of move_point.
MoveCtrlEnd(self, target) ==
    LET px == self.pos[1]
        py == self.pos[2]
        blen == length(Disp(self.begin, self.pos))
        de == Disp(target, self.pos)
        moved == [self EXCEPT !.end = target]
    IN  IF self.mode = PM_SMOOTH
        THEN LET b == normal(opposite(de), blen)
             IN  [moved EXCEPT !.begin = <<px + b[1], py + b[2]>>]
        ELSE IF self.mode = PM_SYMMETRICAL
        THEN LET b == opposite(de)
             IN  [moved EXCEPT !.begin = <<px + b[1], py + b[2]>>]
        ELSE moved

\* Point.move_point(point_type, position, offset): the Point after the call.
Point_move_point(self, point_type, position, offset) ==
    LET target == <<offset[1] + position[1], offset[2] + position[2]>>
    IN  IF point_type = PT_POSITION THEN MovePosition(self, target)
        ELSE IF point_type = PT_CTRL_BEGIN THEN MoveCtrlBegin(self, target)
        ELSE IF point_type = PT_CTRL_END THEN MoveCtrlEnd(self, target)
        ELSE self

\* The moves on which move_point's call of normal() is integral: every move
\* but a Smooth move of a handle, and those where normal() is.
SmoothExact(self, point_type, position, offset) ==
    LET d == <<position[1] + offset[1] - self.pos[1],
               position[2] + offset[2] - self.pos[2]>>
    IN  IF self.mode # PM_SMOOTH \/ point_type = PT_POSITION THEN TRUE
        ELSE IF point_type = PT_CTRL_BEGIN
        THEN NormalExact(d, <<self.end[1] - self.pos[1], self.end[2] - self.pos[2]>>)
        ELSE NormalExact(d, <<self.begin[1] - self.pos[1], self.begin[2] - self.pos[2]>>)

---------------------------------------------------------------------------
(* class Bezier.  Indices returned to the caller count from 0.             *)

Found(i, pty, ofs) == [kind |-> "value", index |-> i, type |-> pty, offset |-> ofs]

\* Bezier_find_from without the test that skips PT_CTRL_END in quadratic mode.
RECURSIVE Bezier_find_from_no_skip(_, _, _, _, _)
Bezier_find_from_no_skip(pts, cubic_mode, location, margin, i) ==
    IF i > Len(pts) THEN None
    ELSE LET res == Point_find_point(pts[i], location, margin)
         IN  IF res # None
             THEN Found(i - 1, res.type, res.offset)
             ELSE Bezier_find_from_no_skip(pts, cubic_mode, location, margin, i + 1)

\* The loop of Bezier.find_point from the i-th Point on.
RECURSIVE Bezier_find_from(_, _, _, _, _)
Bezier_find_from(pts, cubic_mode, location, margin, i) ==
    IF i > Len(pts) THEN None
    ELSE LET res == Point_find_point(pts[i], location, margin)
         IN  IF res # None /\ ~(~cubic_mode /\ res.type = PT_CTRL_END)
             THEN Found(i - 1, res.type, res.offset)
             ELSE Bezier_find_from(pts, cubic_mode, location, margin, i + 1)

\* Bezier.find_point that returns whatever part the Point's own hit test names.
Bezier_find_point_no_skip(pts, cubic_mode, location, margin) ==
    Bezier_find_from_no_skip(pts, cubic_mode, location, margin, 1)

\* Bezier.find_point(location, margin)
Bezier_find_point(pts, cubic_mode, location, margin) ==
    Bezier_find_from(pts, cubic_mode, location, margin, 1)

\* BakePointsOf with the two handles taken the other way round.
BakePointsOf_handles_swapped(pts, cubic_mode, i) ==
    LET last == Len(pts)
        point == pts[i]
    IN  IF cubic_mode
        THEN IF i = 1 THEN <<point.pos, point.end>>
             ELSE IF i = last THEN <<point.begin, point.pos>>
             ELSE <<point.begin, point.pos, point.end>>
        ELSE IF i = last THEN <<point.pos>>
             ELSE <<point.pos, point.end>>

\* What the i-th Point (from 1) adds to the list in Bezier.bake_points.
BakePointsOf(pts, cubic_mode, i) ==
    LET last == Len(pts)
        point == pts[i]
    IN  IF cubic_mode
        THEN IF i = 1 THEN <<point.pos, point.begin>>
             ELSE IF i = last THEN <<point.end, point.pos>>
             ELSE <<point.end, point.pos, point.begin>>
        ELSE IF i = last THEN <<point.pos>>
             ELSE <<point.pos, point.begin>>

RECURSIVE bake_points_from(_, _, _)
bake_points_from(pts, cubic_mode, i) ==
    IF i > Len(pts) THEN <<>>
    ELSE BakePointsOf(pts, cubic_mode, i) \o bake_points_from(pts, cubic_mode, i + 1)

\* Bezier.bake_points()
bake_points(pts, cubic_mode) == bake_points_from(pts, cubic_mode, 1)

\* ControlLinesOf whose first Point is paired with its end handle.
ControlLinesOf_first_end(pts, cubic_mode, i) ==
    LET last == Len(pts)
        point == pts[i]
    IN  IF cubic_mode
        THEN IF i = 1 THEN <<<<point.pos, point.end>>>>
             ELSE IF i = last THEN <<<<point.pos, point.end>>>>
             ELSE <<<<point.pos, point.begin>>, <<point.pos, point.end>>>>
        ELSE IF i # last THEN <<<<point.pos, point.begin>>>> ELSE <<>>

\* What the i-th Point (from 1) adds to the list in Bezier.bake_control_points.
ControlPointsOf(pts, cubic_mode, i) ==
    LET last == Len(pts)
        point == pts[i]
    IN  IF cubic_mode
        THEN IF i = 1 THEN <<point.begin>>
             ELSE IF i = last THEN <<point.end>>
             ELSE <<point.end, point.begin>>
        ELSE IF i # last THEN <<point.begin>> ELSE <<>>

RECURSIVE bake_control_points_from(_, _, _)
bake_control_points_from(pts, cubic_mode, i) ==
    IF i > Len(pts) THEN <<>>
    ELSE ControlPointsOf(pts, cubic_mode, i)
             \o bake_control_points_from(pts, cubic_mode, i + 1)

\* Bezier.bake_control_points()
bake_control_points(pts, cubic_mode) == bake_control_points_from(pts, cubic_mode, 1)

\* What the i-th Point (from 1) adds to the list in Bezier.bake_control_lines.
ControlLinesOf(pts, cubic_mode, i) ==
    LET last == Len(pts)
        point == pts[i]
    IN  IF cubic_mode
        THEN IF i = 1 THEN <<<<point.pos, point.begin>>>>
             ELSE IF i = last THEN <<<<point.pos, point.end>>>>
             ELSE <<<<point.pos, point.begin>>, <<point.pos, point.end>>>>
        ELSE IF i # last THEN <<<<point.pos, point.begin>>>> ELSE <<>>

RECURSIVE bake_control_lines_from(_, _, _)
bake_control_lines_from(pts, cubic_mode, i) ==
    IF i > Len(pts) THEN <<>>
    ELSE ControlLinesOf(pts, cubic_mode, i)
             \o bake_control_lines_from(pts, cubic_mode, i + 1)

\* Bezier.bake_control_lines()
bake_control_lines(pts, cubic_mode) == bake_control_lines_from(pts, cubic_mode, 1)

---------------------------------------------------------------------------
(* Internal API. *)

\* a + (b - a) * r, as one fraction.
lerp(a, b, r) ==
    Rat(a[1] * b[2] * r[2] + (b[1] * a[2] - a[1] * b[2]) * r[1], a[2] * b[2] * r[2])

lerp2(a, b, r) == <<lerp(a[1], b[1], r), lerp(a[2], b[2], r)>>

cubic_segments(x) == IF x < 4 THEN 0 ELSE ((x - 4) \div 3) + 1

---------------------------------------------------------------------------
(* quadratic(points, resolution).  Python indexes from 0: pts[i + 1] here  *)
(* is points[i] there.                                                     *)

\* QuadraticSample with the last interpolation taken from lb to la.
QuadraticSample_swapped(pts, i, r) ==
    LET la == lerp2(pts[i + 1], pts[i + 2], r)
        lb == lerp2(pts[i + 2], pts[i + 3], r)
    IN  lerp2(lb, la, r)

\* One sample of the inner loop body: the segment starting at index i, at r.
QuadraticSample(pts, i, r) ==
    LET la == lerp2(pts[i + 1], pts[i + 2], r)
        lb == lerp2(pts[i + 2], pts[i + 3], r)
    IN  lerp2(la, lb, r)

\* for n in range(resolution): ... result.append(...); r += incr
RECURSIVE QuadraticInner(_, _, _, _, _, _)
QuadraticInner(pts, i, resolution, k, r, result) ==
    IF k >= resolution THEN result
    ELSE QuadraticInner(pts, i, resolution, k + 1,
                        RAdd(r, Rat(1, resolution)),
                        Append(result, QuadraticSample(pts, i, r)))

\* for step in range(steps): r = 0.0; i = step * 2; ...
RECURSIVE QuadraticOuter(_, _, _, _, _)
QuadraticOuter(pts, steps, resolution, step, result) ==
    IF step >= steps THEN result
    ELSE QuadraticOuter(pts, steps, resolution, step + 1,
             QuadraticInner(pts, step * 2, resolution, 0, FromInt(0), result))

\* quadratic without its last statement before the return, result.append(points[-1]).
quadratic_no_last(pts, resolution) ==
    LET n == Len(pts)
    IN  IF n % 2 # 1 THEN ValueError("An odd number of points must be provided.")
        ELSE IF ~(resolution >= 3) THEN ValueError("Resolution is too low.")
        ELSE IF ~(n >= 3) THEN ValueError("Number of points is too low.")
        ELSE LET steps == (n - 1) \div 2
             IN  Value(QuadraticOuter(pts, steps, resolution, 0, <<>>))

quadratic(pts, resolution) ==
    LET n == Len(pts)
    IN  IF n % 2 # 1 THEN ValueError("An odd number of points must be provided.")
        ELSE IF ~(resolution >= 3) THEN ValueError("Resolution is too low.")
        ELSE IF ~(n >= 3) THEN ValueError("Number of points is too low.")
        ELSE LET steps == (n - 1) \div 2
             IN  Value(Append(QuadraticOuter(pts, steps, resolution, 0, <<>>),
                              pts[Len(pts)]))

---------------------------------------------------------------------------
(* cubic(points, resolution). *)

CubicSample(a, b, c, d, r) ==
    LET e == lerp2(a, b, r)
        f == lerp2(b, c, r)
        g == lerp2(c, d, r)
        h == lerp2(e, f, r)
        i == lerp2(f, g, r)
    IN  lerp2(h, i, r)

RECURSIVE CubicInner(_, _, _, _, _, _)
CubicInner(pts, s, resolution, k, r, result) ==
    IF k >= resolution THEN result
    ELSE CubicInner(pts, s, resolution, k + 1,
                    RAdd(r, Rat(1, resolution)),
                    Append(result,
                           CubicSample(pts[s + 1], pts[s + 2], pts[s + 3], pts[s + 4], r)))

RECURSIVE CubicOuter(_, _, _, _, _)
CubicOuter(pts, steps, resolution, step, result) ==
    IF step >= steps THEN result
    ELSE CubicOuter(pts, steps, resolution, step + 1,
             CubicInner(pts, step * 3, resolution, 0, FromInt(0), result))

\* cubic without the assertion on resolution.
cubic_any_resolution(pts, resolution) ==
    LET n == Len(pts)
    IN  IF ~(n >= 4) THEN ValueError("Number of points is too low.")
        ELSE IF (n - 4) % 3 # 0 THEN ValueError("Too many or too few points provided.")
        ELSE LET steps == cubic_segments(n)
             IN  Value(Append(CubicOuter(pts, steps, resolution, 0, <<>>),
                              pts[Len(pts)]))

cubic(pts, resolution) ==
    LET n == Len(pts)
    IN  IF ~(n >= 4) THEN ValueError("Number of points is too low.")
        ELSE IF (n - 4) % 3 # 0 THEN ValueError("Too many or too few points provided.")
        ELSE IF ~(resolution >= 3) THEN ValueError("Resolution is too low.")
        ELSE LET steps == cubic_segments(n)
             IN  Value(Append(CubicOuter(pts, steps, resolution, 0, <<>>),
                              pts[Len(pts)]))

\* bake_curve that hands every flattened list to quadratic().
bake_curve_always_quadratic(pts, cubic_mode, resolution) ==
    LET flat == bake_points(pts, cubic_mode)
        lifted == [j \in 1..Len(flat) |-> RVec(flat[j])]
    IN  quadratic(lifted, resolution)

\* Bezier.bake_curve(resolution); the integer coordinates enter the float
\* arithmetic of the bakers.
bake_curve(pts, cubic_mode, resolution) ==
    LET flat == bake_points(pts, cubic_mode)
        lifted == [j \in 1..Len(flat) |-> RVec(flat[j])]
    IN  IF cubic_mode THEN cubic(lifted, resolution) ELSE quadratic(lifted, resolution)

---------------------------------------------------------------------------
(* The bakers called directly on a control polygon. *)

BakerCoords == {<<0, 0>>, <<5, 10>>, <<10, 0>>}

Polygons == UNION {[1..k -> {RVec(p) : p \in BakerCoords}] : k \in 0..MaxN}

\* The arguments of the call to come are chosen first; each baker is then
\* applied to them once.
InitBaker ==
    /\ points = <<>>
    /\ is_cubic = FALSE
    /\ \E pts \in Polygons, resolution \in 0..MaxRes :
           call = [name |-> "args", points |-> pts, resolution |-> resolution]
    /\ ret = None
    /\ edits = 0

CallQuadratic ==
    /\ call.name = "args"
    /\ call' = [call EXCEPT !.name = "quadratic"]
    /\ ret' = quadratic(call.points, call.resolution)
    /\ UNCHANGED <<points, is_cubic, edits>>

CallCubic ==
    /\ call.name = "args"
    /\ call' = [call EXCEPT !.name = "cubic"]
    /\ ret' = cubic(call.points, call.resolution)
    /\ UNCHANGED <<points, is_cubic, edits>>

NextBaker == CallQuadratic \/ CallCubic

SpecBaker == InitBaker /\ [][NextBaker]_vars

---------------------------------------------------------------------------
(* Calls on the Points of a curve.  The arguments come from small sets.    *)

Locations == {<<0, 0>>, <<3, 4>>, <<0, 5>>}
Offsets == {<<0, 0>>, <<1, 0>>}
Margins == {2}

\* The offsets a caller passes to move_point: a fixed one, or the one the
\* hit test just returned.
OffsetArgs ==
    Offsets \cup (IF ret.kind = "value" /\ "offset" \in DOMAIN ret
                  THEN {ret.offset} ELSE {})

\* points[i].move_point(point_type, position, offset)
DoMovePoint(i, point_type, position, offset) ==
    /\ SmoothExact(points[i], point_type, position, offset)
    /\ points' = [points EXCEPT
                     ![i] = Point_move_point(points[i], point_type, position, offset)]
    /\ call' = [name |-> "move_point", index |-> i, point_type |-> point_type,
                position |-> position, offset |-> offset, before |-> points[i]]
    /\ ret' = None
    /\ edits' = edits + 1
    /\ UNCHANGED is_cubic

MovePoint ==
    /\ edits < MaxMoves
    /\ \E i \in 1..Len(points), point_type \in PointType,
          position \in Locations, offset \in OffsetArgs :
           DoMovePoint(i, point_type, position, offset)

\* points[i].find_point(location, margin)
PointFindPoint ==
    \E i \in 1..Len(points), location \in Locations, margin \in Margins :
        /\ call' = [name |-> "Point.find_point", index |-> i,
                    location |-> location, margin |-> margin]
        /\ ret' = Point_find_point(points[i], location, margin)
        /\ UNCHANGED <<points, is_cubic, edits>>

(* One Point on its own, in any state earlier calls can have left it in:   *)
(* every part is set freely by Cusp moves and mode by assignment.          *)
Anchors == {<<0, 0>>, <<3, 4>>}
Displacements == {<<10, 0>>, <<-10, 0>>, <<0, 0>>, <<-3, 4>>, <<1, 1>>}

PointStates ==
    {[pos |-> p, begin |-> <<p[1] + b[1], p[2] + b[2]>>,
      end |-> <<p[1] + e[1], p[2] + e[2]>>, mode |-> m] :
        p \in Anchors, b \in Displacements, e \in Displacements, m \in PointMode}

InitPoint ==
    /\ \E p \in PointStates : points = <<p>>
    /\ is_cubic = FALSE
    /\ call = [name |-> "Point"]
    /\ ret = None
    /\ edits = 0

NextPoint == MovePoint \/ PointFindPoint

SpecPoint == InitPoint /\ [][NextPoint]_vars

---------------------------------------------------------------------------
(* Properties of the bakers, checked under SpecBaker. *)

QuadraticValid(n, resolution) == n % 2 = 1 /\ n >= 3 /\ resolution >= 3
CubicValid(n, resolution) == n >= 4 /\ (n - 4) % 3 = 0 /\ resolution >= 3

\* The number of segments the specification gives for n points.
StepsOf(name, n) == IF name = "quadratic" THEN (n - 1) \div 2 ELSE ((n - 4) \div 3) + 1

BakerCalled == call.name \in {"quadratic", "cubic"}

BakerValid ==
    \/ call.name = "quadratic" /\ QuadraticValid(Len(call.points), call.resolution)
    \/ call.name = "cubic" /\ CubicValid(Len(call.points), call.resolution)

\* C1: on every valid control polygon and resolution both bakers return
\* steps * resolution + 1 points, the last of which is the last input point.
C1_OutputLength ==
    BakerValid =>
        /\ ret.kind = "value"
        /\ Len(ret.value) = StepsOf(call.name, Len(call.points)) * call.resolution + 1
        /\ ret.value[Len(ret.value)] = call.points[Len(call.points)]

C1_Witness ==
    /\ call.name = "cubic"
    /\ Len(call.points) = 7
    /\ call.resolution = 4
    /\ ret.kind = "value"
    /\ Len(ret.value) = 9
    /\ call.points[7] # call.points[6]

One == FromInt(1)
Bernstein2(p0, p1, p2, r) ==
    LET s == RSub(One, r)
    IN  RAdd(RAdd(RMul(RMul(s, s), p0),
                  RMul(RMul(FromInt(2), RMul(r, s)), p1)),
             RMul(RMul(r, r), p2))

Bernstein3(p0, p1, p2, p3, r) ==
    LET s == RSub(One, r)
    IN  RAdd(RAdd(RMul(RMul(s, RMul(s, s)), p0),
                  RMul(RMul(FromInt(3), RMul(r, RMul(s, s))), p1)),
             RAdd(RMul(RMul(FromInt(3), RMul(RMul(r, r), s)), p2),
                  RMul(RMul(r, RMul(r, r)), p3)))

\* The point of segment k (from 0) of the polygon at parameter r.
SegmentPoint(name, pts, k, r) ==
    IF name = "quadratic"
    THEN [c \in 1..2 |-> Bernstein2(pts[2 * k + 1][c], pts[2 * k + 2][c],
                                    pts[2 * k + 3][c], r)]
    ELSE [c \in 1..2 |-> Bernstein3(pts[3 * k + 1][c], pts[3 * k + 2][c],
                                    pts[3 * k + 3][c], pts[3 * k + 4][c], r)]

\* The first control point of segment k (from 0).
SegmentStart(name, pts, k) ==
    IF name = "quadratic" THEN pts[2 * k + 1] ELSE pts[3 * k + 1]

\* C10: output[k * resolution + j] is the point of segment k at j / resolution;
\* so output[k * resolution] is the first control point of segment k, and the
\* last input point stands once, at the last index.
C10_SamplingOrder ==
    BakerValid =>
        LET pts == call.points
            res == call.resolution
            steps == StepsOf(call.name, Len(pts))
            out == ret.value
        IN  /\ ret.kind = "value"
            /\ Len(out) = steps * res + 1
            /\ \A k \in 0..(steps - 1) :
                  /\ out[k * res + 1] = SegmentStart(call.name, pts, k)
                  /\ \A j \in 0..(res - 1) :
                        out[k * res + j + 1] = SegmentPoint(call.name, pts, k, Rat(j, res))
            /\ out[1] = pts[1]
            /\ out[steps * res + 1] = pts[Len(pts)]

C10_Witness ==
    /\ call.name = "quadratic"
    /\ Len(call.points) = 5
    /\ call.resolution = 3
    /\ ret.kind = "value"
    /\ ret.value[4] = call.points[3]
    /\ ret.value[5] # ret.value[4]
    /\ call.points[3] # call.points[5]

---------------------------------------------------------------------------
(* A curve: Bezier(mode) and the calls on it. *)

DefaultDist == 10
AddArgs == {<<0, 0, DefaultDist>>, <<10, 0, DefaultDist>>}
CurveLocations == {<<0, 0>>, <<10, 0>>, <<0, 5>>}
CurveTargets == {<<3, 4>>}

Init ==
    /\ points = <<>>
    /\ is_cubic \in BOOLEAN
    /\ call = [name |-> "Bezier"]
    /\ ret = None
    /\ edits = 0

\* bezier.mode = value
SetMode ==
    \E value \in {BM_QUADRATIC, BM_CUBIC} :
        /\ is_cubic' = (value = BM_CUBIC)
        /\ call' = [name |-> "set_mode", value |-> value]
        /\ ret' = None
        /\ UNCHANGED <<points, edits>>

\* bezier.add_point(x, y, dist), the arguments drawn from args
AddPointFrom(args) ==
    \E a \in args :
        /\ Len(points) < MaxPoints
        /\ points' = Append(points, Point(a[1], a[2], a[3]))
        /\ call' = [name |-> "add_point", x |-> a[1], y |-> a[2], dist |-> a[3]]
        /\ ret' = None
        /\ UNCHANGED <<is_cubic, edits>>

AddPoint == AddPointFrom(AddArgs)

\* bezier[i].mode = mode
SetPointMode ==
    \E i \in 1..Len(points), mode \in PointMode :
        /\ edits < MaxEdits
        /\ points' = [points EXCEPT ![i].mode = mode]
        /\ call' = [name |-> "set_point_mode", index |-> i, mode |-> mode]
        /\ ret' = None
        /\ edits' = edits + 1
        /\ UNCHANGED is_cubic

\* bezier[i].move_point(point_type, position)
EditPoint ==
    /\ edits < MaxEdits
    /\ \E i \in 1..Len(points), point_type \in PointType, position \in CurveTargets :
           DoMovePoint(i, point_type, position, <<0, 0>>)

\* bezier.find_point(location, margin)
FindPoint ==
    \E location \in CurveLocations, margin \in Margins :
        /\ call' = [name |-> "Bezier.find_point", location |-> location, margin |-> margin]
        /\ ret' = Bezier_find_point(points, is_cubic, location, margin)
        /\ UNCHANGED <<points, is_cubic, edits>>

\* bezier.bake_points()
BakePoints ==
    /\ call' = [name |-> "bake_points"]
    /\ ret' = Value(bake_points(points, is_cubic))
    /\ UNCHANGED <<points, is_cubic, edits>>

\* bezier.bake_control_points()
BakeControlPoints ==
    /\ call' = [name |-> "bake_control_points"]
    /\ ret' = Value(bake_control_points(points, is_cubic))
    /\ UNCHANGED <<points, is_cubic, edits>>

\* bezier.bake_control_lines()
BakeControlLines ==
    /\ call' = [name |-> "bake_control_lines"]
    /\ ret' = Value(bake_control_lines(points, is_cubic))
    /\ UNCHANGED <<points, is_cubic, edits>>

\* bezier.bake_curve(resolution)
BakeCurve ==
    \E resolution \in {3, MaxRes} :
        /\ call' = [name |-> "bake_curve", resolution |-> resolution]
        /\ ret' = bake_curve(points, is_cubic, resolution)
        /\ UNCHANGED <<points, is_cubic, edits>>

Next ==
    \/ SetMode \/ AddPoint \/ SetPointMode \/ EditPoint \/ FindPoint \/ BakePoints
    \/ BakeControlPoints \/ BakeControlLines

Spec == Init /\ [][Next]_vars

(* The curve as bake_curve sees it: built, switched and edited, then baked. *)
BakeAddPoint == AddPointFrom({<<0, 0, DefaultDist>>})

NextBake == SetMode \/ BakeAddPoint \/ SetPointMode \/ EditPoint \/ BakeCurve

SpecBake == Init /\ [][NextBake]_vars

---------------------------------------------------------------------------
(* Properties of Point, checked under SpecPoint.  After a move_point call  *)
(* call.before is the Point as the call found it.                          *)

Moved(mode, point_type) ==
    /\ call.name = "move_point"
    /\ call.before.mode = mode
    /\ call.point_type = point_type

Target == <<call.position[1] + call.offset[1], call.position[2] + call.offset[2]>>
After == points[call.index]

Cross(u, v) == u[1] * v[2] - u[2] * v[1]
Dot(u, v) == u[1] * v[1] + u[2] * v[2]

\* C3: a Symmetrical move of one handle to displacement d from position puts
\* the other handle at position - d and leaves position alone.
C3_SymmetricalMirrors ==
    /\ Moved(PM_SYMMETRICAL, PT_CTRL_BEGIN) =>
          /\ After.pos = call.before.pos
          /\ After.begin = Target
          /\ Disp(After.end, After.pos) = opposite(Disp(Target, call.before.pos))
    /\ Moved(PM_SYMMETRICAL, PT_CTRL_END) =>
          /\ After.pos = call.before.pos
          /\ After.end = Target
          /\ Disp(After.begin, After.pos) = opposite(Disp(Target, call.before.pos))

C3_Witness ==
    /\ Moved(PM_SYMMETRICAL, PT_CTRL_END)
    /\ Target = <<4, 4>>
    /\ call.before.pos = <<3, 4>>
    /\ call.before.begin = <<4, 5>>
    /\ After.begin = <<2, 4>>

\* C4 as claimed: a Smooth move of handle_in to any target, the anchor
\* included, leaves handle_out opposite to the new handle_in displacement and
\* at its old distance from position.
C4_SmoothAnyTarget ==
    Moved(PM_SMOOTH, PT_CTRL_BEGIN) =>
        LET d == Disp(After.begin, After.pos)
            e == Disp(After.end, After.pos)
        IN  /\ Cross(e, d) = 0
            /\ Dot(e, d) <= 0
            /\ SqLen(e) = SqLen(Disp(call.before.end, call.before.pos))

\* C4 amended: that holds for every target other than the anchor position; a
\* move of handle_in onto the anchor puts handle_out on the anchor too.
C4_SmoothOpposite ==
    Moved(PM_SMOOTH, PT_CTRL_BEGIN) =>
        LET d == Disp(After.begin, After.pos)
            e == Disp(After.end, After.pos)
        IN  /\ After.pos = call.before.pos
            /\ After.begin = Target
            /\ IF Target # call.before.pos
               THEN /\ Cross(e, d) = 0
                    /\ Dot(e, d) <= 0
                    /\ SqLen(e) = SqLen(Disp(call.before.end, call.before.pos))
               ELSE After.end = After.pos

C4_Witness ==
    /\ Moved(PM_SMOOTH, PT_CTRL_BEGIN)
    /\ call.before.pos = <<0, 0>>
    /\ call.before.end = <<-10, 0>>
    /\ Target = <<3, 4>>
    /\ After.end = <<-6, -8>>

\* C5: a Cusp move of a handle sets that handle to the target and changes
\* neither the other handle nor position.
C5_CuspIndependent ==
    /\ Moved(PM_CUSP, PT_CTRL_BEGIN) =>
          /\ After.begin = Target
          /\ After.end = call.before.end
          /\ After.pos = call.before.pos
    /\ Moved(PM_CUSP, PT_CTRL_END) =>
          /\ After.end = Target
          /\ After.begin = call.before.begin
          /\ After.pos = call.before.pos

C5_Witness ==
    /\ Moved(PM_CUSP, PT_CTRL_BEGIN)
    /\ Target = <<3, 4>>
    /\ call.before.begin = <<10, 0>>
    /\ After.end = <<-10, 0>>
    /\ After.pos = <<0, 0>>

\* C6: in every mode a move of Position puts position at the target, keeps
\* both handle displacements and keeps the mode.
C6_RigidTranslation ==
    (call.name = "move_point" /\ call.point_type = PT_POSITION) =>
        /\ After.pos = Target
        /\ Disp(After.begin, After.pos) = Disp(call.before.begin, call.before.pos)
        /\ Disp(After.end, After.pos) = Disp(call.before.end, call.before.pos)
        /\ After.mode = call.before.mode

C6_Witness ==
    /\ Moved(PM_SMOOTH, PT_POSITION)
    /\ call.before.pos = <<0, 0>>
    /\ call.before.begin = <<1, 1>>
    /\ call.before.end = <<-3, 4>>
    /\ Target = <<4, 4>>
    /\ After.end = <<1, 8>>

\* The coordinates of a part of a Point.
Part(p, point_type) ==
    IF point_type = PT_POSITION THEN p.pos
    ELSE IF point_type = PT_CTRL_BEGIN THEN p.begin ELSE p.end

\* C7: the offset find_point returns leads from the hit location to the part
\* hit: location + offset is where the part is.
C7_OffsetLeadsToPart ==
    (call.name = "Point.find_point" /\ ret.kind = "value") =>
        <<call.location[1] + ret.offset[1], call.location[2] + ret.offset[2]>>
            = Part(points[call.index], ret.type)

---------------------------------------------------------------------------
(* Properties of Bezier, checked under Spec. *)

\* The Points (from 1) whose own hit test finds a part that is not
\* PT_CTRL_END.
QuadraticCandidates(location, margin) ==
    {i \in 1..Len(points) :
        LET own == Point_find_point(points[i], location, margin)
        IN  own # None /\ own.type # PT_CTRL_END}

Least(S) == CHOOSE i \in S : \A j \in S : i <= j

\* C8: in quadratic mode Bezier.find_point never returns PT_CTRL_END: it
\* returns the first Point whose own hit is Position or HandleIn, passing over
\* the Points whose own hit is HandleOut, and None when there is no such Point.
C8_QuadraticSkipsCtrlEnd ==
    (call.name = "Bezier.find_point" /\ ~is_cubic) =>
        LET cands == QuadraticCandidates(call.location, call.margin)
        IN  IF cands = {} THEN ret = None
            ELSE LET own == Point_find_point(points[Least(cands)],
                                             call.location, call.margin)
                 IN  /\ ret.kind = "value"
                     /\ ret.type \in {PT_POSITION, PT_CTRL_BEGIN}
                     /\ ret.index = Least(cands) - 1
                     /\ ret.type = own.type
                     /\ ret.offset = own.offset

C8_Witness ==
    /\ call.name = "Bezier.find_point"
    /\ ~is_cubic
    /\ ret.kind = "value"
    /\ ret.index = 1
    /\ Point_find_point(points[1], call.location, call.margin) # None
    /\ Point_find_point(points[1], call.location, call.margin).type = PT_CTRL_END

\* C9 as claimed, with handle_in the field begin (hit-tested second, tagged
\* HandleIn) and handle_out the field end: cubic [position, handle_out],
\* [handle_in, position, handle_out], [handle_in, position]; quadratic
\* [position, handle_out] and [position].
C9_LayoutAsClaimed ==
    (call.name = "bake_points" /\ Len(points) >= 2) =>
        LET k == Len(points)
            out == ret.value
        IN  IF is_cubic
            THEN /\ Len(out) = 3 * k - 2
                 /\ out[1] = points[1].pos
                 /\ out[2] = points[1].end
                 /\ \A i \in 2..(k - 1) :
                       /\ out[3 * i - 3] = points[i].begin
                       /\ out[3 * i - 2] = points[i].pos
                       /\ out[3 * i - 1] = points[i].end
                 /\ out[3 * k - 3] = points[k].begin
                 /\ out[3 * k - 2] = points[k].pos
            ELSE /\ Len(out) = 2 * k - 1
                 /\ \A i \in 1..(k - 1) :
                       /\ out[2 * i - 1] = points[i].pos
                       /\ out[2 * i] = points[i].end
                 /\ out[2 * k - 1] = points[k].pos

\* C9 amended: the layout holds with the two handles exchanged: cubic
\* [position, handle_in], [handle_out, position, handle_in],
\* [handle_out, position]; quadratic [position, handle_in] and [position].
\* A curve of one Point gives [position, handle_in] in cubic mode and
\* [position] in quadratic mode, and an empty curve gives nothing.
C9_Layout ==
    call.name = "bake_points" =>
        LET k == Len(points)
            out == ret.value
        IN  IF k = 0 THEN out = <<>>
            ELSE IF is_cubic
            THEN IF k = 1 THEN out = <<points[1].pos, points[1].begin>>
                 ELSE /\ Len(out) = 3 * k - 2
                      /\ out[1] = points[1].pos
                      /\ out[2] = points[1].begin
                      /\ \A i \in 2..(k - 1) :
                            /\ out[3 * i - 3] = points[i].end
                            /\ out[3 * i - 2] = points[i].pos
                            /\ out[3 * i - 1] = points[i].begin
                      /\ out[3 * k - 3] = points[k].end
                      /\ out[3 * k - 2] = points[k].pos
            ELSE /\ Len(out) = 2 * k - 1
                 /\ \A i \in 1..(k - 1) :
                       /\ out[2 * i - 1] = points[i].pos
                       /\ out[2 * i] = points[i].begin
                 /\ out[2 * k - 1] = points[k].pos

C9_Witness ==
    /\ call.name = "bake_points"
    /\ is_cubic
    /\ Len(points) = 3
    /\ Len(ret.value) = 7
    /\ points[2].begin # points[2].end
    /\ ret.value[3] = points[2].end
    /\ ret.value[5] = points[2].begin

\* The number of places of the sequence s that hold v.
Count(v, s) == Cardinality({j \in 1..Len(s) : s[j] = v})

\* The line starts at the Point's position and ends at one of its handles.
OwnedBy(p, line) == line[1] = p.pos /\ line[2] \in {p.begin, p.end}

\* C11: the handles paired in control_lines() are the handles of
\* control_handles(), each as many times, and every pair starts at the position
\* of a Point that owns its handle.
C11_LinesMatchHandles ==
    call.name = "bake_control_lines" =>
        LET lines == ret.value
            handles == bake_control_points(points, is_cubic)
            seconds == [j \in 1..Len(lines) |-> lines[j][2]]
        IN  /\ Len(lines) = Len(handles)
            /\ \A j \in 1..Len(handles) : Count(handles[j], seconds) = Count(handles[j], handles)
            /\ \A j \in 1..Len(lines) : Count(lines[j][2], seconds) = Count(lines[j][2], handles)
            /\ \A j \in 1..Len(lines) : \E i \in 1..Len(points) : OwnedBy(points[i], lines[j])

C11_Witness ==
    /\ call.name = "bake_control_lines"
    /\ is_cubic
    /\ Len(points) = 3
    /\ Len(ret.value) = 4
    /\ ret.value[2] = <<points[2].pos, points[2].begin>>
    /\ bake_control_points(points, is_cubic)[2] = points[2].end
    /\ points[2].begin # points[2].end

\* C12: with a resolution of at least 3, bake raises nothing and returns
\* (k - 1) * resolution + 1 points when the curve has k >= 2 Points, in either
\* mode and whatever was added, switched and moved before; with k <= 1 it
\* raises ValueError in either mode.
C12_BakeNeedsTwoPoints ==
    (call.name = "bake_curve" /\ call.resolution >= 3) =>
        IF Len(points) >= 2
        THEN /\ ret.kind = "value"
             /\ Len(ret.value) = (Len(points) - 1) * call.resolution + 1
        ELSE ret.kind = "ValueError"

C12_Witness ==
    /\ call.name = "bake_curve"
    /\ is_cubic
    /\ Len(points) = 3
    /\ call.resolution = 3
    /\ ret.kind = "value"
    /\ Len(ret.value) = 7
    /\ points[2].begin = <<3, 4>>
    /\ points[2].end = <<-3, -4>>

\* The elements of a sequence.
Range(s) == {s[j] : j \in 1..Len(s)}

\* C13: a handle that Bezier.find_point returns is one of the handles that
\* control_handles() lists for the Point it belongs to, in the current mode.
C13_HitHandleIsListed ==
    (/\ call.name = "Bezier.find_point"
     /\ ret.kind = "value"
     /\ ret.type \in {PT_CTRL_BEGIN, PT_CTRL_END}) =>
        Part(points[ret.index + 1], ret.type)
            \in Range(ControlPointsOf(points, is_cubic, ret.index + 1))

---------------------------------------------------------------------------
(* A Point as the constructor makes it, moved again and again while its    *)
(* mode is left alone.                                                     *)

SymDists == {5, DefaultDist}

InitSym ==
    /\ \E a \in Anchors, dist \in SymDists : points = <<Point(a[1], a[2], dist)>>
    /\ is_cubic = FALSE
    /\ call = [name |-> "Point"]
    /\ ret = None
    /\ edits = 0

SymMovePoint ==
    /\ edits < MaxSymMoves
    /\ \E point_type \in PointType, position \in Locations, offset \in Offsets :
           DoMovePoint(1, point_type, position, offset)

SpecSym == InitSym /\ [][SymMovePoint]_vars

\* C14: a Point that the constructor made and whose mode was never assigned
\* keeps handle_out - position = -(handle_in - position) through every
\* sequence of moves of its three parts.
C14_SymmetricalStaysMirrored ==
    \A i \in 1..Len(points) :
        /\ points[i].mode = PM_SYMMETRICAL
        /\ Disp(points[i].end, points[i].pos) = opposite(Disp(points[i].begin, points[i].pos))

C14_Witness ==
    /\ edits = 3
    /\ call.name = "move_point"
    /\ call.point_type = PT_POSITION
    /\ call.before.begin # call.before.pos
    /\ Disp(call.before.begin, call.before.pos) \notin {<<10, 0>>, <<5, 0>>, <<-10, 0>>, <<-5, 0>>}
    /\ points[1].pos # call.before.pos

=============================================================================
